---------------------------- MODULE Spec2Model ----------------------------
(***************************************************************************)
(* PhotoImporter (dwp1084/PhotoImporter): the import pipeline of           *)
(* src/src/PhotoImporter.py together with the progress counters of         *)
(* src/src/PhotoImporterMainWindow.py.                                     *)
(*                                                                         *)
(* Strings on which the code does substring tests (folder names, file      *)
(* names, the date string) are sequences of one-character strings.  A path *)
(* is a sequence of such names, one per component, so that join, basename  *)
(* and listdir are list operations.  The file system is a set of           *)
(* directories and a function from file paths to byte sequences.           *)
(***************************************************************************)
EXTENDS Integers, Sequences, FiniteSets, TLC

(***************************************************************************)
(* Bounds of the model.                                                    *)
(***************************************************************************)
\* importPhotos calls a caller makes
MaxRuns == 2
\* entries the edited year folder may hold initially
MaxEntries == 2
\* files the DCIM tree of the card may hold initially
MaxFiles == 2

(***************************************************************************)
(* Characters and strings.                                                 *)
(***************************************************************************)
UpperChars == <<"A","B","C","D","E","F","G","H","I","J","K","L","M",
                "N","O","P","Q","R","S","T","U","V","W","X","Y","Z">>

LowerChars == <<"a","b","c","d","e","f","g","h","i","j","k","l","m",
                "n","o","p","q","r","s","t","u","v","w","x","y","z">>

DigitChars == <<"0","1","2","3","4","5","6","7","8","9">>

\* str.lower() on one character
lowerChar(c) ==
  IF \E i \in 1..Len(UpperChars) : UpperChars[i] = c
  THEN LowerChars[CHOOSE i \in 1..Len(UpperChars) : UpperChars[i] = c]
  ELSE c

\* str.lower()
lower(s) == [i \in 1..Len(s) |-> lowerChar(s[i])]

\* the Python operator  s in t  on strings
contains(t, s) ==
  \E i \in 0..(Len(t) - Len(s)) : SubSeq(t, i + 1, i + Len(s)) = s

\* the decimal digits of a natural number, most significant first
RECURSIVE decimal(_)
decimal(n) ==
  IF n < 10 THEN <<DigitChars[n + 1]>>
  ELSE decimal(n \div 10) \o <<DigitChars[(n % 10) + 1]>>

\* left-padding with "0" to a minimum width: the format spec 0<width>d
RECURSIVE zeroPad(_, _)
zeroPad(s, width) == IF Len(s) >= width THEN s ELSE zeroPad(<<"0">> \o s, width)

\* f"{index:02d}"
format02d(index) == zeroPad(decimal(index), 2)

(***************************************************************************)
(* Dates: datetime.date as a record, strftime for the two formats used.    *)
(***************************************************************************)
\* strftime("%Y")
strftimeYear(date) == zeroPad(decimal(date.year), 4)

\* strftime(DATE_FORMAT) with DATE_FORMAT = "%y%m%d"
strftimeDate(date) ==
  zeroPad(decimal(date.year % 100), 2) \o zeroPad(decimal(date.month), 2)
    \o zeroPad(decimal(date.day), 2)

\* dt.date.today(): the default of projectDate
Today == [year |-> 2026, month |-> 11, day |-> 2]

(***************************************************************************)
(* Paths and the file system.                                              *)
(***************************************************************************)
\* the empty string, as a path
EmptyPath == << >>

\* Python's None as a directory argument: no real path has this component
None == << <<"<None>">> >>

\* os.path.join(path, name)
join(path, name) == Append(path, name)

\* os.path.basename(path)
basename(path) == path[Len(path)]

\* the directory a path lies in
dirname(path) == SubSeq(path, 1, Len(path) - 1)

\* os.path.isdir(path)
isdir(f, path) == path \in f.dirs

\* os.path.exists(path)
exists(f, path) == path \in f.dirs \/ path \in DOMAIN f.files

\* os.listdir(path)
listdir(f, path) ==
  {basename(q) : q \in {x \in f.dirs \cup DOMAIN f.files :
                          Len(x) = Len(path) + 1 /\ dirname(x) = path}}

\* os.mkdir(path): raises when the parent is no directory (FileNotFoundError)
\* or the path exists (FileExistsError); else creates the one directory
mkdirRaises(f, path) ==
  \/ path = EmptyPath
  \/ ~isdir(f, dirname(path))
  \/ exists(f, path)

mkdir(f, path) == [f EXCEPT !.dirs = @ \cup {path}]

\* os.remove(path)
remove(f, path) ==
  [f EXCEPT !.files = [q \in (DOMAIN @) \ {path} |-> @[q]]]

\* writing a file's bytes
writeFile(f, path, bytes) ==
  [f EXCEPT !.files = [q \in (DOMAIN @) \cup {path} |->
                         IF q = path THEN bytes ELSE @[q]]]

CAMERA_FOLDER_NAME == <<"D","C","I","M">>


(***************************************************************************)
(* PhotoImporter.validate                                                  *)
(***************************************************************************)
\* mutant of validateCheckFails: the last check compares with 2, not 3
validateCheckFailsTwo(f, k, sdCardRoot, editedDir, jpegDir, rawDir) ==
  CASE k = 1 -> ~exists(f, join(sdCardRoot, CAMERA_FOLDER_NAME))
    [] k = 2 -> ~exists(f, editedDir)
    [] k = 3 -> jpegDir # None /\ ~exists(f, jpegDir)
    [] k = 4 -> rawDir # None /\ ~exists(f, rawDir)
    [] k = 5 -> jpegDir = None /\ editedDir = rawDir
    [] k = 6 -> rawDir = None /\ editedDir = jpegDir
    [] k = 7 -> Cardinality({editedDir, jpegDir, rawDir}) < 2

\* the condition of the k-th if statement of validate, in textual order
validateCheckFails(f, k, sdCardRoot, editedDir, jpegDir, rawDir) ==
  CASE k = 1 -> ~exists(f, join(sdCardRoot, CAMERA_FOLDER_NAME))
    [] k = 2 -> ~exists(f, editedDir)
    [] k = 3 -> jpegDir # None /\ ~exists(f, jpegDir)
    [] k = 4 -> rawDir # None /\ ~exists(f, rawDir)
    [] k = 5 -> jpegDir = None /\ editedDir = rawDir
    [] k = 6 -> rawDir = None /\ editedDir = jpegDir
    [] k = 7 -> Cardinality({editedDir, jpegDir, rawDir}) < 3

\* the IOError the k-th if statement raises: its text and the path it names
validateError(k, sdCardRoot, editedDir, jpegDir, rawDir) ==
  CASE k = 1 -> [text |-> "not a valid camera removable storage device",
                 path |-> sdCardRoot]
    [] k = 2 -> [text |-> "does not exist", path |-> editedDir]
    [] k = 3 -> [text |-> "does not exist", path |-> jpegDir]
    [] k = 4 -> [text |-> "does not exist", path |-> rawDir]
    [] k = 5 -> [text |-> "Edited photos directory and raw photos directory cannot be the same",
                 path |-> EmptyPath]
    [] k = 6 -> [text |-> "Edited photos directory and jpeg photos directory cannot be the same",
                 path |-> EmptyPath]
    [] k = 7 -> [text |-> "Edited, jpeg, and raw photo directories must be unique",
                 path |-> EmptyPath]

NoError == [text |-> "", path |-> EmptyPath]

\* mutant of validateOrder: the uniqueness check before the two it subsumes
validateOrderUniqueFirst == <<1, 2, 3, 4, 7, 5, 6>>

\* the if statements in the order validate executes them
validateOrder == <<1, 2, 3, 4, 5, 6, 7>>

\* validate's checks from position i on: the first raise ends the function.
\* evaluated lists the checks whose conditions were evaluated.
RECURSIVE validateFrom(_, _, _, _, _, _, _)
validateFrom(f, i, evaluated, sdCardRoot, editedDir, jpegDir, rawDir) ==
  IF i > Len(validateOrder)
  THEN [raised |-> FALSE, error |-> NoError, evaluated |-> evaluated]
  ELSE LET k == validateOrder[i] IN
       IF validateCheckFails(f, k, sdCardRoot, editedDir, jpegDir, rawDir)
       THEN [raised |-> TRUE,
             error |-> validateError(k, sdCardRoot, editedDir, jpegDir, rawDir),
             evaluated |-> Append(evaluated, k)]
       ELSE validateFrom(f, i + 1, Append(evaluated, k),
                         sdCardRoot, editedDir, jpegDir, rawDir)

\* mutant of validateStore: sdCardRoot and editedDir assigned before the checks
validateStoreEarly(self, raised, sdCardRoot, editedDir, jpegDir, rawDir) ==
  IF raised
  THEN [self EXCEPT !.sdCardRoot = sdCardRoot, !.editedDir = editedDir]
  ELSE [self EXCEPT !.sdCardRoot = sdCardRoot,
                    !.editedDir = editedDir,
                    !.jpegDir = IF jpegDir # None THEN jpegDir ELSE @,
                    !.rawDir = IF rawDir # None THEN rawDir ELSE @]

\* the coordinator's fields after validate: the four assignments are reached
\* only when no check raised
validateStore(self, raised, sdCardRoot, editedDir, jpegDir, rawDir) ==
  IF raised THEN self
  ELSE [self EXCEPT !.sdCardRoot = sdCardRoot,
                    !.editedDir = editedDir,
                    !.jpegDir = IF jpegDir # None THEN jpegDir ELSE @,
                    !.rawDir = IF rawDir # None THEN rawDir ELSE @]

(***************************************************************************)
(* PhotoImporter._reset and the class-level defaults of the fields.        *)
(***************************************************************************)
\* mutant of reset: jpegPathAlreadyExists is not among the fields assigned,
\* and keeps the value True
resetLeavesJpegFlag ==
  [sdCardRoot |-> EmptyPath,
   editedDir |-> EmptyPath,
   jpegDir |-> EmptyPath,
   rawDir |-> EmptyPath,
   projectName |-> << >>,
   projectDate |-> Today,
   baseProjectFolderName |-> << >>,
   editedPathExists |-> FALSE,
   jpegPathAlreadyExists |-> TRUE,
   rawPathAlreadyExists |-> FALSE,
   jpegFilesToImport |-> << >>,
   rawFilesToImport |-> << >>]

reset ==
  [sdCardRoot |-> EmptyPath,
   editedDir |-> EmptyPath,
   jpegDir |-> EmptyPath,
   rawDir |-> EmptyPath,
   projectName |-> << >>,
   projectDate |-> Today,
   baseProjectFolderName |-> << >>,
   editedPathExists |-> FALSE,
   jpegPathAlreadyExists |-> FALSE,
   rawPathAlreadyExists |-> FALSE,
   jpegFilesToImport |-> << >>,
   rawFilesToImport |-> << >>]

(***************************************************************************)
(* PhotoImporter._mkdirs                                                   *)
(*                                                                         *)
(* The function is the composition of four stages over a record            *)
(*   [self, fs, raised, baseDirectory]:                                    *)
(* the coordinator's fields, the file system, whether an os.mkdir raised   *)
(* (the later stages are then skipped and what was done stays done), and   *)
(* the local baseDirectory.                                                *)
(***************************************************************************)
\* matches = [project for project in listdir(yearPath) if dateStr in project]
dateMatches(f, yearPath, dateStr) ==
  {project \in listdir(f, yearPath) : contains(project, dateStr)}

\* any(self.projectName in match for match in matches)
nameMatches(projectName, matches) ==
  \E match \in matches : contains(match, projectName)

\* the while True loop: the first updatedDateStr, from index on, that no match
\* contains
RECURSIVE suffixSearch(_, _, _)
suffixSearch(dateStr, matches, index) ==
  LET updatedDateStr == dateStr \o <<"-">> \o format02d(index) IN
  IF \E match \in matches : contains(match, updatedDateStr)
  THEN suffixSearch(dateStr, matches, index + 1)
  ELSE updatedDateStr

\* mutant of suffixedDateStr: the search starts at index 2
suffixedDateStrFromTwo(dateStr, matches) == suffixSearch(dateStr, matches, 2)

\* index = 1, then the loop
suffixedDateStr(dateStr, matches) == suffixSearch(dateStr, matches, 1)

\* mutant of editedPathExistsAfter: the assignment of True dropped
editedPathExistsAfterUnset(self, matches) == self.editedPathExists

\* the value of editedPathExists after the if statement over matches
editedPathExistsAfter(self, matches) ==
  IF matches # {} /\ nameMatches(self.projectName, matches)
  THEN TRUE
  ELSE self.editedPathExists

\* the value of dateStr after the if statement over matches
resolvedDateStr(self, dateStr, matches) ==
  IF matches # {} /\ ~nameMatches(self.projectName, matches)
  THEN suffixedDateStr(dateStr, matches)
  ELSE dateStr

\* the year folder of the edited root: created when it is no directory
mkdirsYear(st) ==
  LET yearPath == join(st.self.editedDir, strftimeYear(st.self.projectDate)) IN
  IF st.raised \/ isdir(st.fs, yearPath) THEN st
  ELSE IF mkdirRaises(st.fs, yearPath) THEN [st EXCEPT !.raised = TRUE]
  ELSE [st EXCEPT !.fs = mkdir(st.fs, yearPath)]

\* the edited folder: matches, flag or suffix, baseDirectory, os.mkdir
mkdirsEdited(st) ==
  IF st.raised THEN st
  ELSE
    LET yearPath == join(st.self.editedDir, strftimeYear(st.self.projectDate))
        matches == dateMatches(st.fs, yearPath, strftimeDate(st.self.projectDate))
        flag == editedPathExistsAfter(st.self, matches)
        dateStr == resolvedDateStr(st.self, strftimeDate(st.self.projectDate), matches)
        baseDirectory == dateStr \o <<" ">> \o st.self.projectName
        editedPath == join(yearPath, baseDirectory)
        st1 == [st EXCEPT !.self.editedPathExists = flag,
                          !.baseDirectory = baseDirectory]
    IN IF flag THEN st1
       ELSE IF mkdirRaises(st.fs, editedPath) THEN [st1 EXCEPT !.raised = TRUE]
       ELSE [st1 EXCEPT !.fs = mkdir(st.fs, editedPath)]

\* the JPEG folder: created and jpegDir rebound, or flagged
mkdirsJpeg(st) ==
  IF st.raised \/ st.self.jpegDir = EmptyPath THEN st
  ELSE
    LET yearPath == join(st.self.jpegDir, strftimeYear(st.self.projectDate))
        jpegPath == join(yearPath, st.baseDirectory)
    IN IF isdir(st.fs, jpegPath)
       THEN [st EXCEPT !.self.jpegPathAlreadyExists = TRUE]
       ELSE IF mkdirRaises(st.fs, jpegPath) THEN [st EXCEPT !.raised = TRUE]
       ELSE [st EXCEPT !.fs = mkdir(st.fs, jpegPath), !.self.jpegDir = jpegPath]

\* the RAW folder: as the JPEG folder, with the R prefixes
mkdirsRaw(st) ==
  IF st.raised \/ st.self.rawDir = EmptyPath THEN st
  ELSE
    LET yearPath == join(st.self.rawDir, <<"R">> \o strftimeYear(st.self.projectDate))
        rawPath == join(yearPath, <<"R">> \o st.baseDirectory)
    IN IF isdir(st.fs, rawPath)
       THEN [st EXCEPT !.self.rawPathAlreadyExists = TRUE]
       ELSE IF mkdirRaises(st.fs, rawPath) THEN [st EXCEPT !.raised = TRUE]
       ELSE [st EXCEPT !.fs = mkdir(st.fs, rawPath), !.self.rawDir = rawPath]

mkdirs(self, f) ==
  mkdirsRaw(mkdirsJpeg(mkdirsEdited(mkdirsYear(
    [self |-> self, fs |-> f, raised |-> FALSE, baseDirectory |-> << >>]))))

(***************************************************************************)
(* PhotoImporter._getFileNames                                             *)
(***************************************************************************)
JPEG_EXTENSIONS == {<<".","j","p","g">>, <<".","j","p","e","g">>}

RAW_EXTENSIONS == {<<".","n","e","f">>}

\* path lies below the directory top
isUnder(path, top) ==
  Len(path) > Len(top) /\ SubSeq(path, 1, Len(top)) = top

\* mutant of extensionMatches: the extension anchored at the end of the name
extensionMatchesSuffix(file, extensions) ==
  \E extension \in extensions :
    /\ Len(file) >= Len(extension)
    /\ SubSeq(lower(file), Len(file) - Len(extension) + 1, Len(file))
         = lower(extension)

\* any(extension.lower() in file.lower() for extension in extensions)
extensionMatches(file, extensions) ==
  \E extension \in extensions : contains(lower(file), lower(extension))

\* the files os.walk(sdPath) reaches whose names match
matchingFiles(f, sdCardRoot, extensions) ==
  LET sdPath == join(sdCardRoot, CAMERA_FOLDER_NAME) IN
  {path \in DOMAIN f.files :
     /\ isdir(f, sdPath)
     /\ isUnder(path, sdPath)
     /\ extensionMatches(basename(path), extensions)}

\* os.walk is top-down: a directory's files come before the files of its
\* subdirectories, and the files below one directory are listed together.  The
\* order inside a directory is the operating system's.
isWalkOrder(list) ==
  \A i, j \in 1..Len(list) :
    /\ (i # j) => list[i] # list[j]
    /\ isUnder(dirname(list[j]), dirname(list[i])) => i < j
    /\ \A n \in 1..(Len(list[j]) - 1) :
         (i < j /\ isUnder(list[i], SubSeq(list[j], 1, n))) =>
           \A k \in i..j : isUnder(list[k], SubSeq(list[j], 1, n))

\* the lists _getFileNames may return
getFileNames(f, sdCardRoot, extensions) ==
  LET found == matchingFiles(f, sdCardRoot, extensions) IN
  {list \in [1..Cardinality(found) -> found] : isWalkOrder(list)}

(***************************************************************************)
(* PhotoImporterWorker                                                     *)
(***************************************************************************)
\* chunk_size = 1024 * 1024
chunk_size == 1024 * 1024

\* the loop of getFileHash: filehash.update on each chunk read from offset on
RECURSIVE hashUpdate(_, _, _)
hashUpdate(bytes, offset, stream) ==
  IF offset >= Len(bytes) THEN stream
  ELSE LET upto == IF offset + chunk_size < Len(bytes)
                   THEN offset + chunk_size ELSE Len(bytes)
       IN hashUpdate(bytes, upto, stream \o SubSeq(bytes, offset + 1, upto))

\* sha256(...).digest(): collision-free on the byte streams of the model
getFileHash(f, path) == [sha256 |-> hashUpdate(f.files[path], 0, << >>)]

\* where shutil.copy2(file, destination) writes
copyTarget(f, file, destination) ==
  IF isdir(f, destination) THEN join(destination, basename(file)) ELSE destination

\* shutil.copy2 raises: no source file, or nowhere to write
copyRaises(f, file, destination) ==
  \/ file \notin DOMAIN f.files
  \/ destination = EmptyPath
  \/ ~isdir(f, destination) /\ ~isdir(f, dirname(destination))
  \/ isdir(f, copyTarget(f, file, destination))

\* what a copy that went wrong leaves at the destination: the bytes truncated
truncated(bytes) == SubSeq(bytes, 1, Len(bytes) - 1)

\* mutants of hashesMatch: the comparison dropped, the comparison inverted
hashesMatchAlways(originalHash, newHash) == TRUE

hashesMatchInverted(originalHash, newHash) == originalHash # newHash

\* if originalHash != newHash: ... else: remove(file)
hashesMatch(originalHash, newHash) == originalHash = newHash

\* PhotoImporterWorker.__init__, moved to its thread and started; finishedSlot
\* is the slot connected to thread.finished
newWorker(filesToImport, destination, finishedSlot) ==
  [filesToImport |-> filesToImport,
   destination |-> destination,
   finishedSlot |-> finishedSlot,
   pc |-> "run",
   index |-> 1,
   originalHash |-> [sha256 |-> << >>],
   newHash |-> [sha256 |-> << >>],
   copied |-> << >>,
   corrupted |-> FALSE]

NoWorker ==
  [newWorker(<< >>, EmptyPath, "") EXCEPT !.pc = "none"]

(***************************************************************************)
(* Signals.  An emission is a record; slot and index say which batch and   *)
(* which file of it a worker's emission belongs to.                        *)
(***************************************************************************)
Signal(sig, n, text, file, dest, slot, index) ==
  [sig |-> sig, n |-> n, text |-> text, file |-> file, dest |-> dest,
   slot |-> slot, index |-> index]

\* a signal of the coordinator itself
OwnSignal(sig, n) == Signal(sig, n, "", EmptyPath, EmptyPath, "", 0)

\* mutant of numberOfOperations: two operations a file
numberOfOperationsTwice(jpegFilesToImport, rawFilesToImport) ==
  (Len(jpegFilesToImport) + Len(rawFilesToImport)) * 2

\* numberOfOperations = (len(jpegFilesToImport) + len(rawFilesToImport)) * 3
numberOfOperations(jpegFilesToImport, rawFilesToImport) ==
  (Len(jpegFilesToImport) + Len(rawFilesToImport)) * 3

(***************************************************************************)
(* The state.                                                              *)
(***************************************************************************)
VARIABLES
  fs,          \* the file system: [dirs, files]
  importer,    \* the fields of the PhotoImporter object
  worker,      \* the current PhotoImporterWorker and its thread
  queue,       \* signals posted to the main thread, not yet delivered
  events,      \* the signals PhotoImporter has emitted in the current run
  window,      \* PhotoImporterMainWindow: the counters, the label, the lock
  caller,      \* the last request, its outcome, the importPhotos calls made
  active,      \* a run has started its first thread and not reached rawsFinished
  resolutions  \* one record per _mkdirs call

vars == <<fs, importer, worker, queue, events, window, caller, active, resolutions>>

(***************************************************************************)
(* The initial states: the roots, the card and what the folders hold.      *)
(***************************************************************************)
SdCard == << <<"S">> >>
NoCamera == << <<"X">> >>
EditedRoot == << <<"E">> >>
JpegRoot == << <<"J">> >>
RawRoot == << <<"R">> >>
MissingDir == << <<"M">> >>

ProjectDates == {[year |-> 2023, month |-> 1, day |-> 1]}

ProjectNames == {<<"a">>, <<"b">>}

\* folders the year folder of the edited root may hold before the first run
EntryPool ==
  {<<"2","3","0","1","0","1"," ","b">>,
   <<"2","3","0","1","0","1","-","0","1"," ","c">>,
   <<"2","3","0","1","0","1","-","0","2"," ","a","b">>,
   <<"2","3","0","1","0","2"," ","a">>}

Dcim == join(SdCard, CAMERA_FOLDER_NAME)
Dcim100 == join(Dcim, <<"1","0","0">>)
Dcim101 == join(Dcim, <<"1","0","1">>)

\* files the card may hold before the first run, with their bytes
CardPool ==
  {<<join(Dcim100, <<"a",".","j","p","g">>), <<1, 2>>>>,
   <<join(Dcim101, <<"a",".","j","p","g">>), <<3>>>>,
   <<join(Dcim100, <<"b",".","N","E","F">>), << >>>>,
   <<join(Dcim, <<"c",".","j","p","g",".","n","e","f">>), <<4>>>>,
   <<join(Dcim100, <<"e",".","t","x","t">>), <<5>>>>}

Year2023 == <<"2","0","2","3">>

InitialDirs(entries, editedYear, jpegYear, rawYear) ==
  {SdCard, NoCamera, EditedRoot, JpegRoot, RawRoot, Dcim, Dcim100, Dcim101}
    \cup (IF editedYear \/ entries # {} THEN {join(EditedRoot, Year2023)} ELSE {})
    \cup {join(join(EditedRoot, Year2023), e) : e \in entries}
    \cup (IF jpegYear THEN {join(JpegRoot, Year2023)} ELSE {})
    \cup (IF rawYear THEN {join(RawRoot, <<"R">> \o Year2023)} ELSE {})

InitialFiles(card) ==
  [path \in {c[1] : c \in card} |-> (CHOOSE c \in card : c[1] = path)[2]]

InitWith(Entries, Cards, EditedYear, JpegYear, RawYear) ==
  /\ \E entries \in Entries, card \in Cards,
        editedYear \in EditedYear, jpegYear \in JpegYear, rawYear \in RawYear :
       fs = [dirs |-> InitialDirs(entries, editedYear, jpegYear, rawYear),
             files |-> InitialFiles(card)]
  /\ importer = reset
  /\ worker = NoWorker
  /\ queue = << >>
  /\ events = << >>
  /\ window = [operationsToPerform |-> 0, operationsCompleted |-> 0,
               currentActionMessage |-> OwnSignal("", 0), optionsEnabled |-> TRUE]
  /\ caller = [request |-> <<EmptyPath, EmptyPath, None, None>>,
               error |-> NoError, evaluated |-> << >>,
               validated |-> FALSE, runs |-> 0, importRaised |-> FALSE]
  /\ active = FALSE
  /\ resolutions = << >>

\* the transfer: every card of up to MaxFiles files, an edited root that is
\* new or holds another project of the date
Init ==
  InitWith({{}, {<<"2","3","0","1","0","1"," ","b">>}},
           {c \in SUBSET CardPool : Cardinality(c) <= MaxFiles},
           {TRUE}, {TRUE}, BOOLEAN)

\* the resolution of directories: every edited year folder of up to MaxEntries
\* entries, with or without the year folders of the other roots, and a card
\* of one file
InitResolve ==
  InitWith({e \in SUBSET EntryPool : Cardinality(e) <= MaxEntries},
           {{c} : c \in {x \in CardPool : x[2] = <<1, 2>>}},
           BOOLEAN, BOOLEAN, BOOLEAN)

\* the validation: one file system, every request
InitValidate ==
  InitWith({{}}, {{c} : c \in {x \in CardPool : x[2] = <<1, 2>>}},
           {TRUE}, {TRUE}, {TRUE})

(***************************************************************************)
(* The caller.  It calls the coordinator only between runs, validate       *)
(* before importPhotos, and importPhotos only after validate returned: the *)
(* importPhotos slot of PhotoImporterMainWindow, whose controls the        *)
(* importing slot disables until importComplete.                           *)
(***************************************************************************)
\* every request over the directories of the model
AllRequests ==
  {SdCard, NoCamera} \X {EditedRoot, MissingDir}
    \X {None, JpegRoot, EditedRoot, MissingDir}
    \X {None, RawRoot, EditedRoot, JpegRoot, MissingDir}

\* the requests with a JPEG root, a RAW root or both, and one that is refused
TransferRequests ==
  {<<SdCard, EditedRoot, JpegRoot, RawRoot>>,
   <<SdCard, EditedRoot, JpegRoot, None>>,
   <<SdCard, EditedRoot, None, RawRoot>>,
   <<NoCamera, EditedRoot, JpegRoot, RawRoot>>}

\* PhotoImporter.validate(sdCardRoot, editedDir, jpegDir, rawDir)
Validate(sdCardRoot, editedDir, jpegDir, rawDir) ==
  /\ ~active
  /\ LET result == validateFrom(fs, 1, << >>, sdCardRoot, editedDir, jpegDir, rawDir) IN
       /\ importer' = validateStore(importer, result.raised,
                                    sdCardRoot, editedDir, jpegDir, rawDir)
       /\ caller' = [caller EXCEPT
                       !.request = <<sdCardRoot, editedDir, jpegDir, rawDir>>,
                       !.error = result.error,
                       !.evaluated = result.evaluated,
                       !.validated = ~result.raised]
  /\ UNCHANGED <<fs, worker, queue, events, window, active, resolutions>>

\* what _mkdirs did, for the record of resolutions
Resolution(self, before, st) ==
  [editedDir |-> self.editedDir,
   jpegDir |-> self.jpegDir,
   rawDir |-> self.rawDir,
   projectDate |-> self.projectDate,
   projectName |-> self.projectName,
   flagBefore |-> self.editedPathExists,
   before |-> before,
   after |-> st.fs.dirs,
   editedPathExists |-> st.self.editedPathExists,
   baseDirectory |-> st.baseDirectory,
   raised |-> st.raised]

\* mutant of jpegsFinishedEmits: importComplete after the first batch
jpegsFinishedEmitsComplete == <<OwnSignal("importComplete", 0)>>

\* the signals jpegsFinished emits itself: none
jpegsFinishedEmits == << >>

\* the signals rawsFinished emits itself: importComplete
rawsFinishedEmits == <<OwnSignal("importComplete", 0)>>

\* PhotoImporter.importPhotos(date, projectName) with _importPhotos: the signal
\* importing, _mkdirs, the two scans, the operation count, the first thread.
\* An exception of _mkdirs leaves importPhotos at once.
ImportPhotos(date, projectName) ==
  /\ ~active
  /\ caller.validated
  /\ caller.runs < MaxRuns
  /\ LET self1 == [importer EXCEPT !.projectName = projectName, !.projectDate = date]
         st == mkdirs(self1, fs)
         self2 == st.self
     IN
       /\ fs' = st.fs
       /\ resolutions' = Append(resolutions, Resolution(self1, fs.dirs, st))
       /\ IF st.raised
          THEN /\ importer' = self2
               /\ events' = <<OwnSignal("importing", 0)>>
               /\ window' = [window EXCEPT !.optionsEnabled = FALSE]
               /\ caller' = [caller EXCEPT !.importRaised = TRUE,
                                           !.validated = FALSE, !.runs = @ + 1]
               /\ UNCHANGED <<worker, active>>
          ELSE \E jpegFiles \in
                    (IF self2.jpegDir # EmptyPath /\ ~self2.jpegPathAlreadyExists
                     THEN getFileNames(st.fs, self2.sdCardRoot, JPEG_EXTENSIONS)
                     ELSE {self2.jpegFilesToImport}),
                  rawFiles \in
                    (IF self2.rawDir # EmptyPath /\ ~self2.rawPathAlreadyExists
                     THEN getFileNames(st.fs, self2.sdCardRoot, RAW_EXTENSIONS)
                     ELSE {self2.rawFilesToImport}) :
               LET n == numberOfOperations(jpegFiles, rawFiles) IN
               /\ importer' = [self2 EXCEPT !.jpegFilesToImport = jpegFiles,
                                            !.rawFilesToImport = rawFiles]
               /\ events' = <<OwnSignal("importing", 0),
                              OwnSignal("updateNumberOfOperations", n)>>
               /\ window' = [window EXCEPT !.optionsEnabled = FALSE,
                                           !.operationsToPerform = n]
               /\ worker' = newWorker(jpegFiles, self2.jpegDir, "jpegsFinished")
               /\ active' = TRUE
               /\ caller' = [caller EXCEPT !.importRaised = FALSE,
                                           !.validated = FALSE, !.runs = @ + 1]
  /\ UNCHANGED queue

(***************************************************************************)
(* PhotoImporterWorker.run, on the worker's thread.  Its signals reach the *)
(* coordinator through the main thread's queue.                            *)
(***************************************************************************)
currentFile == worker.filesToImport[worker.index]

WorkerSignal(sig, text, file, dest) ==
  Signal(sig, 0, text, file, dest, worker.finishedSlot, worker.index)

\* statusMessage "Copying", copy2, completedOperation.  copy2 on a missing
\* source raises and the thread's run ends there.
WorkerCopy ==
  /\ worker.pc = "run"
  /\ worker.index <= Len(worker.filesToImport)
  /\ LET file == currentFile
         status == WorkerSignal("statusMessage", "Copying", <<basename(file)>>,
                                worker.destination)
     IN IF copyRaises(fs, file, worker.destination)
        THEN /\ worker' = [worker EXCEPT !.pc = "raised"]
             /\ queue' = Append(queue, status)
             /\ UNCHANGED fs
        ELSE \E corrupted \in BOOLEAN :
               /\ corrupted => Len(fs.files[file]) > 0
               /\ fs' = writeFile(fs, copyTarget(fs, file, worker.destination),
                                  IF corrupted THEN truncated(fs.files[file])
                                  ELSE fs.files[file])
               /\ worker' = [worker EXCEPT !.pc = "verify",
                                           !.copied = fs.files[file],
                                           !.corrupted = corrupted]
               /\ queue' = queue \o
                    <<status,
                      WorkerSignal("completedOperation", "", EmptyPath, EmptyPath)>>
  /\ UNCHANGED <<importer, events, window, caller, active, resolutions>>

\* statusMessage "Checking hash", the two getFileHash calls, completedOperation
WorkerVerify ==
  /\ worker.pc = "verify"
  /\ LET file == currentFile IN
       /\ worker' = [worker EXCEPT
                       !.pc = "decide",
                       !.originalHash = getFileHash(fs, file),
                       !.newHash = getFileHash(fs, join(worker.destination,
                                                        basename(file)))]
       /\ queue' = queue \o
            <<WorkerSignal("statusMessage", "Checking hash", <<basename(file)>>,
                           EmptyPath),
              WorkerSignal("completedOperation", "", EmptyPath, EmptyPath)>>
  /\ UNCHANGED <<fs, importer, events, window, caller, active, resolutions>>

\* mutant of decideEmits: completedOperation inside the else branch only
decideEmitsInBranch(match, file) ==
  IF match
  THEN <<WorkerSignal("statusMessage", "Deleting", file, EmptyPath),
         WorkerSignal("completedOperation", "", EmptyPath, EmptyPath)>>
  ELSE << >>

\* mutant of decideEmits: completedOperation ahead of the status message
decideEmitsCompletedFirst(match, file) ==
  <<WorkerSignal("completedOperation", "", EmptyPath, EmptyPath)>>
    \o (IF match
        THEN <<WorkerSignal("statusMessage", "Deleting", file, EmptyPath)>>
        ELSE << >>)

\* the signals of the if statement on the hashes and after it
decideEmits(match, file) ==
  (IF match
   THEN <<WorkerSignal("statusMessage", "Deleting", file, EmptyPath)>>
   ELSE << >>)
    \o <<WorkerSignal("completedOperation", "", EmptyPath, EmptyPath)>>

\* the if statement on the hashes, completedOperation, the next file
WorkerDecide ==
  /\ worker.pc = "decide"
  /\ LET file == currentFile
         match == hashesMatch(worker.originalHash, worker.newHash)
     IN /\ fs' = IF match THEN remove(fs, file) ELSE fs
        /\ queue' = queue \o decideEmits(match, file)
        /\ worker' = [worker EXCEPT !.pc = "run", !.index = @ + 1]
  /\ UNCHANGED <<importer, events, window, caller, active, resolutions>>

\* the loop is exhausted: finished is emitted
WorkerFinish ==
  /\ worker.pc = "run"
  /\ worker.index > Len(worker.filesToImport)
  /\ worker' = [worker EXCEPT !.pc = "emittedFinished"]
  /\ queue' = Append(queue, WorkerSignal("finished", "", EmptyPath, EmptyPath))
  /\ UNCHANGED <<fs, importer, events, window, caller, active, resolutions>>

\* the thread's event loop has been told to quit: the thread ends and its
\* finished signal is posted
ThreadExit ==
  /\ worker.pc = "quitting"
  /\ worker' = [worker EXCEPT !.pc = "none"]
  /\ queue' = Append(queue, WorkerSignal("threadFinished", "", EmptyPath, EmptyPath))
  /\ UNCHANGED <<fs, importer, events, window, caller, active, resolutions>>

(***************************************************************************)
(* The main thread: the queued signals are delivered in order.             *)
(***************************************************************************)
\* PhotoImporterMainWindow's slots for the signals PhotoImporter emits
RECURSIVE windowAfter(_, _)
windowAfter(w, signals) ==
  IF signals = << >> THEN w
  ELSE LET s == Head(signals)
           w1 == CASE s.sig = "completedOperation" ->
                        [w EXCEPT !.operationsCompleted = @ + 1]
                   [] s.sig = "statusMessage" ->
                        [w EXCEPT !.currentActionMessage = s]
                   [] s.sig = "updateNumberOfOperations" ->
                        [w EXCEPT !.operationsToPerform = s.n]
                   [] s.sig = "importing" ->
                        [w EXCEPT !.optionsEnabled = FALSE]
                   [] s.sig = "importComplete" ->
                        [w EXCEPT !.optionsEnabled = TRUE,
                                  !.operationsToPerform = 0,
                                  !.operationsCompleted = 0]
                   [] OTHER -> w
       IN windowAfter(w1, Tail(signals))

\* worker.completedOperation is connected to PhotoImporter.completedOperation,
\* that to updateProgress
DeliverCompletedOperation ==
  /\ queue # << >>
  /\ Head(queue).sig = "completedOperation"
  /\ queue' = Tail(queue)
  /\ events' = Append(events, Head(queue))
  /\ window' = windowAfter(window, <<Head(queue)>>)
  /\ UNCHANGED <<fs, importer, worker, caller, active, resolutions>>

\* worker.statusMessage is connected to PhotoImporter.statusMessage, that to
\* setStatusMessage
DeliverStatusMessage ==
  /\ queue # << >>
  /\ Head(queue).sig = "statusMessage"
  /\ queue' = Tail(queue)
  /\ events' = Append(events, Head(queue))
  /\ window' = windowAfter(window, <<Head(queue)>>)
  /\ UNCHANGED <<fs, importer, worker, caller, active, resolutions>>

\* worker.finished is connected to thread.quit
ThreadQuit ==
  /\ queue # << >>
  /\ Head(queue).sig = "finished"
  /\ queue' = Tail(queue)
  /\ worker' = [worker EXCEPT !.pc = "quitting"]
  /\ UNCHANGED <<fs, importer, events, window, caller, active, resolutions>>

\* mutant of JpegsFinished: the slot connected to worker.finished, not to
\* thread.finished
JpegsFinishedOnWorkerFinished ==
  /\ queue # << >>
  /\ Head(queue).sig = "finished"
  /\ Head(queue).slot = "jpegsFinished"
  /\ queue' = Tail(queue)
  /\ events' = events \o jpegsFinishedEmits
  /\ window' = windowAfter(window, jpegsFinishedEmits)
  /\ worker' = newWorker(importer.rawFilesToImport, importer.rawDir, "rawsFinished")
  /\ UNCHANGED <<fs, importer, caller, active, resolutions>>

\* thread.finished of the first thread: jpegsFinished starts the second
JpegsFinished ==
  /\ queue # << >>
  /\ Head(queue).sig = "threadFinished"
  /\ Head(queue).slot = "jpegsFinished"
  /\ queue' = Tail(queue)
  /\ events' = events \o jpegsFinishedEmits
  /\ window' = windowAfter(window, jpegsFinishedEmits)
  /\ worker' = newWorker(importer.rawFilesToImport, importer.rawDir, "rawsFinished")
  /\ UNCHANGED <<fs, importer, caller, active, resolutions>>

\* thread.finished of the second thread: rawsFinished emits importComplete and
\* calls _reset
RawsFinished ==
  /\ queue # << >>
  /\ Head(queue).sig = "threadFinished"
  /\ Head(queue).slot = "rawsFinished"
  /\ queue' = Tail(queue)
  /\ events' = events \o rawsFinishedEmits
  /\ window' = windowAfter(window, rawsFinishedEmits)
  /\ importer' = reset
  /\ active' = FALSE
  /\ UNCHANGED <<fs, worker, caller, resolutions>>

\* the steps of the two threads
Threads ==
  \/ WorkerCopy
  \/ WorkerVerify
  \/ WorkerDecide
  \/ WorkerFinish
  \/ ThreadExit
  \/ DeliverCompletedOperation
  \/ DeliverStatusMessage
  \/ ThreadQuit
  \/ JpegsFinished
  \/ RawsFinished

Next ==
  \/ \E request \in TransferRequests :
       Validate(request[1], request[2], request[3], request[4])
  \/ \E date \in ProjectDates : ImportPhotos(date, <<"a">>)
  \/ Threads

NextResolve ==
  \/ \E request \in TransferRequests :
       Validate(request[1], request[2], request[3], request[4])
  \/ \E date \in ProjectDates, projectName \in ProjectNames :
       ImportPhotos(date, projectName)
  \/ Threads

NextValidate ==
  \/ \E request \in AllRequests :
       Validate(request[1], request[2], request[3], request[4])
  \/ \E date \in ProjectDates : ImportPhotos(date, <<"a">>)
  \/ Threads

Spec == Init /\ [][Next]_vars

SpecResolve == InitResolve /\ [][NextResolve]_vars

SpecValidate == InitValidate /\ [][NextValidate]_vars

(***************************************************************************)
(* Properties of the transfer (PhotoImporterWorker.run).                   *)
(***************************************************************************)
\* the digest of a byte sequence: equal digests, equal bytes
Digest(bytes) == [sha256 |-> bytes]

\* the signals the workers of the current run have emitted, delivered or not
Emitted == events \o queue

\* the worker has completed the three steps of a file and not begun the next
UnitCompleted == worker.pc = "run" /\ worker.index > 1

\* the file of the completed unit, and where its copy lies
UnitFile == worker.filesToImport[worker.index - 1]
UnitCopy == join(worker.destination, basename(UnitFile))

\* the completed unit emitted the status message "Deleting"
UnitDeletingEmitted ==
  \E i \in 1..Len(Emitted) :
    /\ Emitted[i].sig = "statusMessage"
    /\ Emitted[i].text = "Deleting"
    /\ Emitted[i].slot = worker.finishedSlot
    /\ Emitted[i].index = worker.index - 1

\* the digests of the source as copied and of the copy differ
UnitDigestsDiffer ==
  \/ UnitCopy \notin DOMAIN fs.files
  \/ Digest(worker.copied) # Digest(fs.files[UnitCopy])

\* C1: when a file's unit completes, the source is deleted and "Deleting" is
\* emitted only if the digest of the source equals the digest of the copy; when
\* the digests differ the source still exists and no "Deleting" was emitted.
C1_DeleteOnlyOnEqualDigests ==
  UnitCompleted =>
    /\ UnitDigestsDiffer => (UnitFile \in DOMAIN fs.files /\ ~UnitDeletingEmitted)
    /\ UnitFile \notin DOMAIN fs.files => ~UnitDigestsDiffer
    /\ UnitDeletingEmitted => ~UnitDigestsDiffer

C1_Witness ==
  /\ UnitCompleted
  /\ UnitDigestsDiffer
  /\ UnitFile \in DOMAIN fs.files
  /\ ~UnitDeletingEmitted

\* C2: when the unit of a file whose copy was not corrupted completes, the
\* digest of the source as copied equals the digest of the file of the source's
\* base name in the destination, the source is absent and that file is present.
C2_CopyVerifyDeleteRoundTrip ==
  (UnitCompleted /\ ~worker.corrupted) =>
    /\ UnitCopy \in DOMAIN fs.files
    /\ Digest(worker.copied) = Digest(fs.files[UnitCopy])
    /\ UnitFile \notin DOMAIN fs.files

C2_Witness ==
  /\ UnitCompleted
  /\ ~worker.corrupted
  /\ UnitCopy \in DOMAIN fs.files
  /\ fs.files[UnitCopy] = worker.copied
  /\ UnitFile \notin DOMAIN fs.files

(***************************************************************************)
(* Properties of the signals of a run.                                     *)
(***************************************************************************)
\* the places in the run's signals of the signal sig
Places(sig) == {i \in 1..Len(events) : events[i].sig = sig}

\* the places of the completedOperation signals of one batch
CompletedOf(slot) ==
  {i \in Places("completedOperation") : events[i].slot = slot}

\* the run has got past _mkdirs: its first thread was started
RunStarted == active \/ Len(events) > 1

\* the second thread has finished and rawsFinished is the next slot to run:
\* importComplete is about to be emitted
ImportFinishing ==
  /\ queue # << >>
  /\ Head(queue).sig = "threadFinished"
  /\ Head(queue).slot = "rawsFinished"

\* C3: a run emits updateNumberOfOperations once, right after importing and
\* before any signal of a worker, and its value is three times the number of
\* files in the two batches.
C3_OneOperationCount ==
  /\ Cardinality(Places("updateNumberOfOperations")) <= 1
  /\ RunStarted =>
       /\ Places("importing") = {1}
       /\ Places("updateNumberOfOperations") = {2}
  /\ active =>
       /\ events[2].n = 3 * (Len(importer.jpegFilesToImport)
                             + Len(importer.rawFilesToImport))
       /\ worker.pc # "none" =>
            worker.filesToImport =
              (IF worker.finishedSlot = "jpegsFinished"
               THEN importer.jpegFilesToImport ELSE importer.rawFilesToImport)

C3_Witness ==
  /\ active
  /\ Len(importer.jpegFilesToImport) = 1
  /\ Len(importer.rawFilesToImport) = 1
  /\ events[2].sig = "updateNumberOfOperations"
  /\ events[2].n = 6
  /\ worker.index = 1

\* C4: the window's operationsCompleted never exceeds the operation count that
\* was published, and when importComplete is about to be emitted it equals that
\* count: three for every file of the two batches, deleted or not.
C4_ProgressWithinTotal ==
  /\ window.operationsCompleted <= window.operationsToPerform
  /\ active =>
       /\ window.operationsToPerform = events[2].n
       /\ window.operationsCompleted = Cardinality(Places("completedOperation"))
  /\ ImportFinishing =>
       /\ window.operationsCompleted = window.operationsToPerform
       /\ window.operationsCompleted =
            3 * (Len(importer.jpegFilesToImport) + Len(importer.rawFilesToImport))

\* a run about to finish in which a file was kept because its digests differed
C4_Witness ==
  /\ ImportFinishing
  /\ window.operationsCompleted = 6
  /\ window.operationsToPerform = 6
  /\ \E i \in 1..Len(importer.jpegFilesToImport) :
       importer.jpegFilesToImport[i] \in DOMAIN fs.files

\* C5: the signals of a run come in the order importing,
\* updateNumberOfOperations, the completedOperation signals of the JPEG batch,
\* those of the RAW batch, importComplete; importComplete is the last signal and
\* all the completedOperation signals the count announced precede it.
C5_SignalOrder ==
  /\ \A i \in 1..Len(events) :
       /\ events[i].sig = "importing" => i = 1
       /\ events[i].sig = "updateNumberOfOperations" => i = 2
       /\ events[i].sig = "importComplete" =>
            /\ i = Len(events)
            /\ i > 2
            /\ ~active
            /\ queue = << >>
            /\ Cardinality(Places("completedOperation")) = events[2].n
  /\ \A i \in CompletedOf("jpegsFinished"), j \in CompletedOf("rawsFinished") : i < j
  /\ \A i \in Places("completedOperation") \cup Places("statusMessage") :
       events[i].slot \in {"jpegsFinished", "rawsFinished"}

C5_Witness ==
  /\ Len(events) > 2
  /\ events[Len(events)].sig = "importComplete"
  /\ Cardinality(CompletedOf("jpegsFinished")) = 3
  /\ Cardinality(CompletedOf("rawsFinished")) = 3

(***************************************************************************)
(* Properties of validate.  The request is the last one the caller made;   *)
(* the directories validate looks at are not touched by a run.             *)
(***************************************************************************)
\* validate has been called
Validated == caller.evaluated # << >>

\* the seven preconditions of a request, as the interface states them
Precondition(k, sdCardRoot, editedDir, jpegDir, rawDir) ==
  CASE k = 1 -> exists(fs, join(sdCardRoot, CAMERA_FOLDER_NAME))
    [] k = 2 -> exists(fs, editedDir)
    [] k = 3 -> jpegDir = None \/ exists(fs, jpegDir)
    [] k = 4 -> rawDir = None \/ exists(fs, rawDir)
    [] k = 5 -> jpegDir = None => editedDir # rawDir
    [] k = 6 -> rawDir = None => editedDir # jpegDir
    [] k = 7 -> editedDir # jpegDir /\ editedDir # rawDir /\ jpegDir # rawDir

\* the preconditions the last request violates
Violated ==
  {k \in 1..7 : ~Precondition(k, caller.request[1], caller.request[2],
                              caller.request[3], caller.request[4])}

\* the error the k-th check gives for the last request
ErrorOf(k) ==
  validateError(k, caller.request[1], caller.request[2],
                caller.request[3], caller.request[4])

\* precondition k is violated alone; 5 and 6 cannot be without 7, which either
\* implies
ViolatedAlone(k) ==
  \/ Violated = {k}
  \/ k \in {5, 6} /\ Violated = {k, 7}

\* C6: validate returns without raising exactly when the seven preconditions
\* hold, and a precondition violated alone is answered with the error of its
\* own check, which no other check gives for the request.
C6_ValidateAcceptsIffPreconditions ==
  Validated =>
    /\ (caller.error = NoError) <=> (Violated = {})
    /\ \A k \in 1..7 :
         ViolatedAlone(k) =>
           /\ caller.error = ErrorOf(k)
           /\ \A other \in (1..7) \ {k} : ErrorOf(other) # caller.error

\* the JPEG root alone does not exist
C6_Witness ==
  /\ Validated
  /\ Violated = {3}
  /\ caller.error = [text |-> "does not exist", path |-> MissingDir]

\* C7: when several preconditions are violated, validate raises the error of
\* the lowest-numbered one and evaluates no check after it.
C7_FirstFailingCheck ==
  (Validated /\ Violated # {}) =>
    LET first == CHOOSE k \in Violated : \A other \in Violated : k <= other IN
      /\ caller.error = ErrorOf(first)
      /\ caller.evaluated = [i \in 1..first |-> i]

\* no camera folder, no edited directory, and the edited directory given as
\* the JPEG root too
C7_Witness ==
  /\ Validated
  /\ {1, 2, 3, 6, 7} \subseteq Violated
  /\ caller.error.text = "not a valid camera removable storage device"
  /\ caller.evaluated = <<1>>

\* a step in which validate raised
ValidateRaised ==
  /\ caller'.runs = caller.runs
  /\ caller' # caller
  /\ caller'.error # NoError

\* C8: a validate call that raises changes no field of the coordinator, emits
\* no signal and creates no directory.
C8_RejectionChangesNothing ==
  [][ValidateRaised =>
       UNCHANGED <<importer, fs, events, queue, window, worker, active>>]_vars

\* a request was refused after an earlier one had been stored
C8_Witness ==
  /\ Validated
  /\ caller.error # NoError
  /\ importer.sdCardRoot = SdCard
  /\ importer.rawDir = RawRoot
  /\ caller.request[4] # RawRoot

(***************************************************************************)
(* Properties of _mkdirs, over the record of its calls.                    *)
(***************************************************************************)
\* the year folder of the edited root for a call
YearPathOf(r) == join(r.editedDir, strftimeYear(r.projectDate))

\* the names in the edited year folder before and after a call
EntriesBefore(r) == {basename(p) : p \in {q \in r.before : dirname(q) = YearPathOf(r)}}
EntriesAfter(r) == {basename(p) : p \in {q \in r.after : dirname(q) = YearPathOf(r)}}

\* the edited folders a call created
CreatedBy(r) == EntriesAfter(r) \ EntriesBefore(r)

\* the entries that contain the date string of the call
MatchesOf(r) ==
  {e \in EntriesBefore(r) : contains(e, strftimeDate(r.projectDate))}

\* two digits for an index below 100
TwoDigits(n) == <<DigitChars[(n \div 10) + 1], DigitChars[(n % 10) + 1]>>

\* YYMMDD-NN for a call and an index
Suffixed(r, n) == strftimeDate(r.projectDate) \o <<"-">> \o TwoDigits(n)

\* no matching entry contains YYMMDD-NN
Unused(r, n) == \A e \in MatchesOf(r) : ~contains(e, Suffixed(r, n))

\* the call before was for the same edited root, date and project name
Repeats(i) ==
  /\ i > 1
  /\ resolutions[i].editedDir = resolutions[i - 1].editedDir
  /\ resolutions[i].projectDate = resolutions[i - 1].projectDate
  /\ resolutions[i].projectName = resolutions[i - 1].projectName

\* C9: a second resolution with the same date and project name creates no
\* edited folder, flags the edited destination as existing, and designates the
\* folder the first resolution created.
C9_ResolutionIdempotent ==
  \A i \in 1..Len(resolutions) :
    Repeats(i) =>
      /\ CreatedBy(resolutions[i]) = {}
      /\ resolutions[i].editedPathExists
      /\ CreatedBy(resolutions[i - 1]) # {} =>
           resolutions[i].baseDirectory \in CreatedBy(resolutions[i - 1])

\* what of C9 the code does: no second folder, and the flag
C9_NoSecondFolder ==
  \A i \in 1..Len(resolutions) :
    Repeats(i) =>
      /\ CreatedBy(resolutions[i]) = {}
      /\ resolutions[i].editedPathExists

\* C10: when entries of the edited year folder contain the date string and none
\* contains the project name, the folder name starts with YYMMDD-NN, NN the
\* smallest index from 01 that no matching entry contains; unless the flag was
\* left set by an earlier call, the folder of that name is created.
C10_SmallestUnusedSuffix ==
  \A i \in 1..Len(resolutions) :
    LET r == resolutions[i] IN
    (MatchesOf(r) # {} /\ \A e \in MatchesOf(r) : ~contains(e, r.projectName)) =>
      \E n \in 1..99 :
        /\ Unused(r, n)
        /\ \A m \in 1..(n - 1) : ~Unused(r, m)
        /\ r.baseDirectory = Suffixed(r, n) \o <<" ">> \o r.projectName
        /\ ~r.flagBefore => CreatedBy(r) = {r.baseDirectory}

\* folders dated 230101 and 230101-01, and a new name: 230101-02
C10_Witness ==
  \E i \in 1..Len(resolutions) :
    /\ EntriesBefore(resolutions[i]) =
         {<<"2","3","0","1","0","1"," ","b">>,
          <<"2","3","0","1","0","1","-","0","1"," ","c">>}
    /\ resolutions[i].projectName = <<"a">>
    /\ resolutions[i].baseDirectory = <<"2","3","0","1","0","1","-","0","2"," ","a">>
    /\ CreatedBy(resolutions[i]) = {resolutions[i].baseDirectory}

(***************************************************************************)
(* Properties of a run that follows an earlier run of the same project.    *)
(***************************************************************************)
\* the resolution of the current or last run, and the one before it
LastResolution == resolutions[Len(resolutions)]
PriorResolution == resolutions[Len(resolutions) - 1]

\* the JPEG and RAW folders of a call for the folder name
JpegFolderOf(r, name) ==
  join(join(r.jpegDir, strftimeYear(r.projectDate)), name)
RawFolderOf(r, name) ==
  join(join(r.rawDir, <<"R">> \o strftimeYear(r.projectDate)), <<"R">> \o name)

\* importPhotos has returned and no thread has taken a step since
RunJustStarted ==
  /\ active
  /\ Len(events) = 2
  /\ queue = << >>
  /\ worker.finishedSlot = "jpegsFinished"
  /\ worker.pc = "run"
  /\ worker.index = 1

\* the run is a second one for the same roots, date and project name, the run
\* before created the edited and the JPEG folder, and the RAW folder of that
\* name did not exist when this run began
RerunWithoutRaw ==
  /\ Len(resolutions) > 1
  /\ Repeats(Len(resolutions))
  /\ LastResolution.jpegDir = PriorResolution.jpegDir
  /\ LastResolution.jpegDir # EmptyPath
  /\ LastResolution.rawDir # EmptyPath
  /\ \E name \in CreatedBy(PriorResolution) :
       /\ JpegFolderOf(PriorResolution, name) \in
            PriorResolution.after \ PriorResolution.before
       /\ RawFolderOf(LastResolution, name) \notin LastResolution.before

\* the directories the current run created below its JPEG root
JpegFoldersCreated ==
  {p \in LastResolution.after \ LastResolution.before :
     isUnder(p, LastResolution.jpegDir)}

\* C11: in a run that repeats a request whose edited and JPEG folders an
\* earlier run created and whose RAW folder does not exist, the JPEG batch is
\* empty, no JPEG folder is created and no signal of a JPEG transfer is
\* emitted, and the RAW batch is the result of the scan for RAW files.
C11_RerunTransfersRawOnly ==
  (active /\ RerunWithoutRaw) =>
    /\ importer.jpegFilesToImport = << >>
    /\ JpegFoldersCreated = {}
    /\ \A i \in 1..Len(Emitted) :
         Emitted[i].slot = "jpegsFinished" =>
           Emitted[i].sig \in {"finished", "threadFinished"}
    /\ RunJustStarted =>
         {importer.rawFilesToImport[i] : i \in 1..Len(importer.rawFilesToImport)}
           = matchingFiles(fs, importer.sdCardRoot, RAW_EXTENSIONS)

\* the part of C11 that holds: the same, when the earlier run's folder name
\* carries no suffix
C11_RerunUnsuffixed ==
  (/\ active
   /\ RerunWithoutRaw
   /\ PriorResolution.baseDirectory =
        strftimeDate(PriorResolution.projectDate) \o <<" ">>
          \o PriorResolution.projectName) =>
    /\ importer.jpegFilesToImport = << >>
    /\ JpegFoldersCreated = {}

C11_RerunReached ==
  /\ RunJustStarted
  /\ RerunWithoutRaw
  /\ importer.jpegFilesToImport = << >>
  /\ Len(importer.rawFilesToImport) = 1

(***************************************************************************)
(* Properties of the folders a resolution leaves.                          *)
(***************************************************************************)
\* the call had a JPEG root and a RAW root
AllDestinations(r) == r.jpegDir # EmptyPath /\ r.rawDir # EmptyPath

\* the edited folder of a call
EditedFolderOf(r) == join(YearPathOf(r), r.baseDirectory)

\* the three folders of a call exist after it
DestinationsExist(r) ==
  /\ ~r.raised
  /\ EditedFolderOf(r) \in r.after
  /\ JpegFolderOf(r, r.baseDirectory) \in r.after
  /\ RawFolderOf(r, r.baseDirectory) \in r.after

\* the year folders of the JPEG and the RAW root existed before the call
YearFoldersBefore(r) ==
  /\ dirname(JpegFolderOf(r, r.baseDirectory)) \in r.before
  /\ dirname(RawFolderOf(r, r.baseDirectory)) \in r.before

\* C12: whatever the validated roots hold initially, with or without the year
\* folders of the JPEG and the RAW root, the first resolution of a request with
\* all destinations leaves the edited, the JPEG and the RAW folder existing.
C12_DestinationsCreated ==
  (Len(resolutions) >= 1 /\ AllDestinations(resolutions[1])) =>
    DestinationsExist(resolutions[1])

\* the part of C12 that holds: the same, when both year folders exist and no
\* entry of the date contains the project name
C12_WithYearFolders ==
  (/\ Len(resolutions) >= 1
   /\ AllDestinations(resolutions[1])
   /\ YearFoldersBefore(resolutions[1])
   /\ \A e \in MatchesOf(resolutions[1]) :
        ~contains(e, resolutions[1].projectName)) =>
    DestinationsExist(resolutions[1])

(***************************************************************************)
(* A caller that does not wait for importComplete.  importPhotos has no    *)
(* condition on the state of the coordinator, so a call made during a run  *)
(* executes the same statements.  _createThread then rebinds self.thread   *)
(* and self.worker: when the thread of the run is still running, its       *)
(* QThread and its worker lose their last reference while in use, and the  *)
(* outcome is either that Qt aborts the process or that the new worker     *)
(* takes the place of the old one.                                         *)
(***************************************************************************)
\* the thread of the current worker has started and not finished
ThreadRunning ==
  worker.pc \in {"run", "verify", "decide", "emittedFinished", "quitting"}

\* the worker of a process that was aborted: no thread takes another step
AbortedWorker == [NoWorker EXCEPT !.pc = "aborted"]

\* PhotoImporter.importPhotos(date, projectName) called during a run
ImportPhotosWhileActive(date, projectName) ==
  /\ active
  /\ worker.pc # "aborted"
  /\ caller.runs < MaxRuns
  /\ LET self1 == [importer EXCEPT !.projectName = projectName, !.projectDate = date]
         st == mkdirs(self1, fs)
         self2 == st.self
     IN
       /\ fs' = st.fs
       /\ resolutions' = Append(resolutions, Resolution(self1, fs.dirs, st))
       /\ caller' = [caller EXCEPT !.importRaised = st.raised, !.runs = @ + 1]
       /\ IF st.raised
          THEN /\ importer' = self2
               /\ events' = Append(events, OwnSignal("importing", 0))
               /\ window' = [window EXCEPT !.optionsEnabled = FALSE]
               /\ UNCHANGED <<worker, queue>>
          ELSE \E jpegFiles \in
                    (IF self2.jpegDir # EmptyPath /\ ~self2.jpegPathAlreadyExists
                     THEN getFileNames(st.fs, self2.sdCardRoot, JPEG_EXTENSIONS)
                     ELSE {self2.jpegFilesToImport}),
                  rawFiles \in
                    (IF self2.rawDir # EmptyPath /\ ~self2.rawPathAlreadyExists
                     THEN getFileNames(st.fs, self2.sdCardRoot, RAW_EXTENSIONS)
                     ELSE {self2.rawFilesToImport}),
                  aborted \in BOOLEAN :
               LET n == numberOfOperations(jpegFiles, rawFiles) IN
               /\ aborted => ThreadRunning
               /\ importer' = [self2 EXCEPT !.jpegFilesToImport = jpegFiles,
                                            !.rawFilesToImport = rawFiles]
               /\ events' = events \o <<OwnSignal("importing", 0),
                                        OwnSignal("updateNumberOfOperations", n)>>
               /\ window' = [window EXCEPT !.optionsEnabled = FALSE,
                                           !.operationsToPerform = n]
               /\ worker' = IF aborted THEN AbortedWorker
                            ELSE newWorker(jpegFiles, self2.jpegDir, "jpegsFinished")
               /\ queue' = IF aborted THEN << >> ELSE queue
  /\ UNCHANGED active

\* one card, one file system, and both project names
InitReentrant ==
  InitWith({{}}, {{c} : c \in {x \in CardPool : x[2] = <<1, 2>>}},
           {TRUE}, {TRUE}, {TRUE})

NextReentrant ==
  \/ \E request \in TransferRequests :
       Validate(request[1], request[2], request[3], request[4])
  \/ \E date \in ProjectDates, projectName \in ProjectNames :
       ImportPhotos(date, projectName)
  \/ \E date \in ProjectDates, projectName \in ProjectNames :
       ImportPhotosWhileActive(date, projectName)
  \/ Threads

SpecReentrant == InitReentrant /\ [][NextReentrant]_vars

\* a step in which importPhotos is called during a run
CalledWhileActive == active /\ caller'.runs = caller.runs + 1

\* C13: an importPhotos call made while a run is active is answered with an
\* error and changes nothing: no field of the coordinator, no signal, no
\* directory, and the worker of the run stays the current worker.
C13_OneRunAtATime ==
  [][CalledWhileActive =>
       /\ caller'.importRaised
       /\ UNCHANGED <<importer, worker, events, queue, fs>>]_vars

(***************************************************************************)
(* Properties of what a worker reports.                                    *)
(***************************************************************************)
\* the texts of the status messages run emits
StatusTexts == {"Copying", "Checking hash", "Deleting"}

\* the completed unit emitted a signal, other than the three status messages
\* of a transfer, that names the unit's file
UnitWarningEmitted ==
  \E i \in 1..Len(Emitted) :
    /\ Emitted[i].slot = worker.finishedSlot
    /\ Emitted[i].index = worker.index - 1
    /\ Emitted[i].sig \notin {"completedOperation", "finished", "threadFinished"}
    /\ Emitted[i].text \notin StatusTexts
    /\ Emitted[i].file \in {UnitFile, <<basename(UnitFile)>>}

\* C14: when the digests of a file's source and copy differ, the source is
\* kept and a signal that names the file, a status message or a warning of its
\* own, is emitted for the presentation layer.
C14_MismatchWarning ==
  (UnitCompleted /\ UnitDigestsDiffer) =>
    /\ UnitFile \in DOMAIN fs.files
    /\ UnitWarningEmitted

(***************************************************************************)
(* Properties of the scan (_getFileNames).                                 *)
(***************************************************************************)
\* the name, lower-cased, has the extension, lower-cased, at position i
HasExtensionAt(name, extension, i) ==
  /\ i + Len(extension) - 1 <= Len(name)
  /\ \A j \in 1..Len(extension) :
       lowerChar(name[i + j - 1]) = lowerChar(extension[j])

\* the files below {sourceRoot}/DCIM, at any depth, whose names have one of
\* the extensions at some position
FilesWithExtension(sourceRoot, extensions) ==
  {path \in DOMAIN fs.files :
     /\ Len(path) > Len(sourceRoot) + 1
     /\ \A n \in 1..Len(sourceRoot) : path[n] = sourceRoot[n]
     /\ path[Len(sourceRoot) + 1] = CAMERA_FOLDER_NAME
     /\ \E extension \in extensions, i \in 1..Len(path[Len(path)]) :
          HasExtensionAt(path[Len(path)], extension, i)}

\* the list holds each file of the set once and nothing else
ListsExactly(list, files) ==
  /\ {list[i] : i \in 1..Len(list)} = files
  /\ Len(list) = Cardinality(files)

BatchOf(slot) ==
  IF slot = "jpegsFinished" THEN importer.jpegFilesToImport
  ELSE importer.rawFilesToImport

IsWorkerSignal(s) == s.sig \in {"statusMessage", "completedOperation", "finished"}

\* the signals the worker of a slot has emitted, in order
SignalsOf(slot) ==
  SelectSeq(Emitted, LAMBDA s : s.slot = slot /\ IsWorkerSignal(s))

\* the signals of the k-th file of a slot, in order
UnitSignals(slot, k) ==
  SelectSeq(SignalsOf(slot), LAMBDA s : s.index = k /\ s.sig # "finished")

\* what a signal is: the text of a status message, else the signal's name
KindOf(s) == IF s.sig = "statusMessage" THEN s.text ELSE s.sig

Kinds(signals) == [i \in 1..Len(signals) |-> KindOf(signals[i])]

\* the signals of a file whose digests matched, and of one whose did not
UnitDeleted ==
  <<"Copying", "completedOperation", "Checking hash", "completedOperation",
    "Deleting", "completedOperation">>
UnitKept ==
  <<"Copying", "completedOperation", "Checking hash", "completedOperation",
    "completedOperation">>

IsPrefix(a, b) == Len(a) <= Len(b) /\ SubSeq(b, 1, Len(a)) = a

UnitStarted(slot, k) == UnitSignals(slot, k) # << >>
UnitDone(slot, k) == Kinds(UnitSignals(slot, k)) \in {UnitDeleted, UnitKept}

BatchFinishedEmitted(slot) ==
  \E i \in 1..Len(SignalsOf(slot)) : SignalsOf(slot)[i].sig = "finished"

\* the signals of one batch are in order
BatchInOrder(slot) ==
  LET signals == SignalsOf(slot)
      batch == BatchOf(slot)
  IN
    /\ \A i, j \in 1..Len(signals) :
         /\ i < j => signals[i].index <= signals[j].index
         /\ signals[i].sig = "finished" => i = Len(signals)
    /\ \A k \in 1..Len(batch) :
         /\ \/ IsPrefix(Kinds(UnitSignals(slot, k)), UnitDeleted)
            \/ IsPrefix(Kinds(UnitSignals(slot, k)), UnitKept)
         /\ \A i \in 1..Len(UnitSignals(slot, k)) :
              LET s == UnitSignals(slot, k)[i] IN
                /\ s.text \in {"Copying", "Checking hash"} =>
                     s.file = <<basename(batch[k])>>
                /\ s.text = "Deleting" => s.file = batch[k]
         /\ (k < Len(batch) /\ UnitStarted(slot, k + 1)) => UnitDone(slot, k)
         /\ BatchFinishedEmitted(slot) => UnitDone(slot, k)
    /\ \A i \in 1..Len(signals) :
         signals[i].sig # "finished" => signals[i].index \in 1..Len(batch)

\* where the worker is in the unit of its current file, told by its signals
WorkerInStep ==
  LET slot == worker.finishedSlot
      k == worker.index
  IN
    /\ worker.pc = "verify" =>
         Kinds(UnitSignals(slot, k)) = SubSeq(UnitKept, 1, 2)
    /\ worker.pc = "decide" =>
         Kinds(UnitSignals(slot, k)) = SubSeq(UnitKept, 1, 4)
    /\ worker.pc = "run" =>
         /\ \A j \in 1..(k - 1) : UnitDone(slot, j)
         /\ k <= Len(worker.filesToImport) => ~UnitStarted(slot, k)
         /\ ~BatchFinishedEmitted(slot)

\* C16: in a batch the files are processed in the order of the list, one at a
\* time: the signals of a file are Copying, completed, Checking hash, completed,
\* Deleting when the digests matched, completed; the next file's first signal
\* follows the third completed of the file before; finished follows the third
\* completed of the last file.
C16_BatchOrder ==
  active =>
    /\ BatchInOrder("jpegsFinished")
    /\ BatchInOrder("rawsFinished")
    /\ WorkerInStep

\* a JPEG batch of two files, the first deleted, the second kept
C16_Witness ==
  /\ active
  /\ Len(importer.jpegFilesToImport) = 2
  /\ Kinds(SignalsOf("jpegsFinished")) = UnitDeleted \o UnitKept \o <<"finished">>

(***************************************************************************)
(* Properties of the two threads of a run.                                 *)
(***************************************************************************)
\* the worker of the RAW batch is the current worker
RawBatchRunning == active /\ worker.finishedSlot = "rawsFinished"

\* every file of the JPEG batch has had its three steps and no signal of the
\* JPEG worker or of its thread is still to be delivered
JpegBatchOver ==
  /\ \A k \in 1..Len(importer.jpegFilesToImport) : UnitDone("jpegsFinished", k)
  /\ \A i \in 1..Len(queue) : queue[i].slot # "jpegsFinished"

\* a step that creates the RAW batch's worker and starts its thread
RawWorkerCreated ==
  worker.finishedSlot = "jpegsFinished" /\ worker'.finishedSlot = "rawsFinished"

\* C17: the RAW batch's worker is created only when the JPEG batch's worker has
\* emitted finished and its thread has ended, so that while the RAW worker runs
\* the JPEG batch is over: at most one worker executes.
C17_OneWorkerAtATime ==
  /\ [](RawBatchRunning => JpegBatchOver)
  /\ [][RawWorkerCreated =>
          /\ worker.pc = "none"
          /\ worker'.pc = "run"
          /\ JpegBatchOver']_vars

\* the RAW worker has copied a file after a JPEG batch of one file
C17_Witness ==
  /\ RawBatchRunning
  /\ worker.pc = "verify"
  /\ Len(importer.jpegFilesToImport) = 1
  /\ UnitDone("jpegsFinished", 1)

(***************************************************************************)
(* Properties of the end of a run.                                         *)
(***************************************************************************)
\* a step in which a run reaches rawsFinished
RunCompletes == active /\ ~active'

\* the per-run fields of the coordinator have their defaults
FieldsCleared ==
  /\ importer.sdCardRoot = << >>
  /\ importer.editedDir = << >>
  /\ importer.jpegDir = << >>
  /\ importer.rawDir = << >>
  /\ importer.projectName = << >>
  /\ importer.baseProjectFolderName = << >>
  /\ ~importer.editedPathExists
  /\ ~importer.jpegPathAlreadyExists
  /\ ~importer.rawPathAlreadyExists
  /\ importer.jpegFilesToImport = << >>
  /\ importer.rawFilesToImport = << >>

\* C18: when a run reaches rawsFinished, importComplete has been emitted once
\* in the run, as its last signal, and every per-run field of the coordinator
\* has its default.
C18_CompleteClearsFields ==
  [][RunCompletes =>
       /\ Cardinality(Places("importComplete")') = 1
       /\ events'[Len(events')].sig = "importComplete"
       /\ FieldsCleared']_vars

\* a second run of a project, in which the folders were flagged as existing
\* and a RAW file was transferred, has completed
C18_Witness ==
  /\ ~active
  /\ ~caller.validated
  /\ Len(events) > 2
  /\ events[Len(events)].sig = "importComplete"
  /\ Cardinality(Places("completedOperation")) = 3
  /\ Len(resolutions) = 2
  /\ LastResolution.editedPathExists
  /\ FieldsCleared

(***************************************************************************)
(* Properties of a run that _mkdirs aborts, and of the request stored.     *)
(***************************************************************************)
\* the last importPhotos call left with an exception of _mkdirs and validate
\* has not stored a request since
AbortedByMkdirs == ~active /\ caller.importRaised /\ ~caller.validated

\* C19: after a resolution that raised, the per-run fields of the coordinator
\* have their defaults and no worker was started.
C19_AbortClearsFields ==
  AbortedByMkdirs =>
    /\ FieldsCleared
    /\ worker.pc = "none"

\* what of C19 the code does: no worker is started
C19_AbortStartsNoWorker ==
  AbortedByMkdirs => (worker.pc = "none" /\ queue = << >>)

\* the directory stored for an argument: the argument, or empty when absent
StoredFor(argument) == IF argument = None THEN EmptyPath ELSE argument

\* C20: after a validate call that returned, the four directories stored are
\* those of the call, an absent JPEG or RAW directory being stored as empty.
C20_StoredRequestIsSupplied ==
  caller.validated =>
    /\ importer.sdCardRoot = caller.request[1]
    /\ importer.editedDir = caller.request[2]
    /\ importer.jpegDir = StoredFor(caller.request[3])
    /\ importer.rawDir = StoredFor(caller.request[4])

\* the part of C20 that holds: the directories that were supplied are stored
C20_SuppliedAreStored ==
  caller.validated =>
    /\ importer.sdCardRoot = caller.request[1]
    /\ importer.editedDir = caller.request[2]
    /\ caller.request[3] # None => importer.jpegDir = caller.request[3]
    /\ caller.request[4] # None => importer.rawDir = caller.request[4]

(***************************************************************************)
(* Properties of what is scanned and where the copies go.                  *)
(***************************************************************************)
\* the directories the resolution of the current run created
CreatedInRun == LastResolution.after \ LastResolution.before

\* the leaf folders of the current run's resolution
JpegLeaf == JpegFolderOf(LastResolution, LastResolution.baseDirectory)
RawLeaf == RawFolderOf(LastResolution, LastResolution.baseDirectory)

\* the worker has copied a file that it has not yet decided on
CopyPerformed == worker.pc \in {"verify", "decide"}

\* every copy so far went to a folder the run's resolution created
CopiesIntoCreatedLeaf ==
  CopyPerformed =>
    /\ worker.destination \in CreatedInRun
    /\ worker.destination =
         (IF worker.finishedSlot = "jpegsFinished" THEN JpegLeaf ELSE RawLeaf)
    /\ copyTarget(fs, currentFile, worker.destination)
         = join(worker.destination, basename(currentFile))

\* C21: a batch of a run is non-empty only if the request of the run supplied
\* its root and the run's resolution created its leaf folder; a batch whose
\* destination was flagged as existing is empty; every copy goes into a leaf
\* folder created by the run's resolution.
C21_ScanOnlyIntoCreatedLeaf ==
  active =>
    /\ importer.jpegFilesToImport # << >> =>
         (caller.request[3] # None /\ JpegLeaf \in CreatedInRun)
    /\ importer.rawFilesToImport # << >> =>
         (caller.request[4] # None /\ RawLeaf \in CreatedInRun)
    /\ importer.jpegPathAlreadyExists => importer.jpegFilesToImport = << >>
    /\ importer.rawPathAlreadyExists => importer.rawFilesToImport = << >>
    /\ CopiesIntoCreatedLeaf

\* the part of C21 that holds: the same, with the root held by the coordinator
\* when resolution began in the place of the root the request supplied
C21_StoredRootOnly ==
  active =>
    /\ importer.jpegFilesToImport # << >> =>
         (LastResolution.jpegDir # EmptyPath /\ JpegLeaf \in CreatedInRun)
    /\ importer.rawFilesToImport # << >> =>
         (LastResolution.rawDir # EmptyPath /\ RawLeaf \in CreatedInRun)
    /\ importer.jpegPathAlreadyExists => importer.jpegFilesToImport = << >>
    /\ importer.rawPathAlreadyExists => importer.rawFilesToImport = << >>
    /\ CopiesIntoCreatedLeaf

(***************************************************************************)
(* Progress of a run.  The worker's thread is scheduled by the operating   *)
(* system and the main thread's event loop delivers every queued signal:   *)
(* a step of the two threads that stays possible is eventually taken.      *)
(***************************************************************************)
SpecLive == Init /\ [][Next]_vars /\ WF_vars(Threads)

\* no file is in both batches of the run
BatchesDisjoint ==
  \A i \in 1..Len(importer.jpegFilesToImport),
     j \in 1..Len(importer.rawFilesToImport) :
    importer.jpegFilesToImport[i] # importer.rawFilesToImport[j]

\* C22: every run that has passed validation and resolution and started its
\* first thread eventually emits importComplete and is over, whatever files
\* the scans returned.
C22_RunFinishes == active ~> ~active

\* the part of C22 that holds: a run whose batches share no file finishes
C22_DisjointRunFinishes == (active /\ BatchesDisjoint) ~> ~active

(***************************************************************************)
(* Properties of the files at the end of a run.                            *)
(***************************************************************************)
\* the bytes a file of the card had before the first run: files of the card
\* are removed, never written
CardBytes(path) == (CHOOSE c \in CardPool : c[1] = path)[2]

\* the files the worker of a slot removed from the card in the current run:
\* the files of its "Deleting" messages, each followed by os.remove
DeletedBy(slot) ==
  {events[i].file : i \in {j \in Places("statusMessage") :
                             /\ events[j].text = "Deleting"
                             /\ events[j].slot = slot}}

\* the folder holds a file with these bytes
HoldsCopy(folder, bytes) ==
  \E q \in DOMAIN fs.files : dirname(q) = folder /\ fs.files[q] = bytes

\* every file the slot's worker removed is gone from the card and has its
\* bytes in the batch's destination
BatchPreserved(slot, destination) ==
  \A file \in DeletedBy(slot) :
    /\ file \notin DOMAIN fs.files
    /\ HoldsCopy(destination, CardBytes(file))

\* the base names of a batch's files are distinct
DistinctBaseNames(batch) ==
  \A i, j \in 1..Len(batch) :
    basename(batch[i]) = basename(batch[j]) => i = j

\* C23: when importComplete is about to be emitted, the destination folder of
\* each batch holds, for every file that the batch's worker removed from the
\* card, a file with that file's bytes.
C23_NoDataLoss ==
  ImportFinishing =>
    /\ BatchPreserved("jpegsFinished", importer.jpegDir)
    /\ BatchPreserved("rawsFinished", importer.rawDir)

\* the part of C23 that holds: the same, for batches of distinct base names
C23_DistinctNamesPreserved ==
  (/\ ImportFinishing
   /\ DistinctBaseNames(importer.jpegFilesToImport)
   /\ DistinctBaseNames(importer.rawFilesToImport)) =>
    /\ BatchPreserved("jpegsFinished", importer.jpegDir)
    /\ BatchPreserved("rawsFinished", importer.rawDir)

(***************************************************************************)
(* Properties of the names a resolution composes.                          *)
(***************************************************************************)
\* the edited folders a call used for its project: the one it created, else
\* the existing entries of the date that it recognised by the project name
EditedFoldersUsed(r) ==
  IF CreatedBy(r) # {} THEN CreatedBy(r)
  ELSE {e \in MatchesOf(r) : contains(e, r.projectName)}

\* the names of the JPEG and RAW leaf folders of a call that were created or
\* found existing
JpegLeafNames(r) ==
  {basename(p) : p \in {q \in r.after :
     Len(q) > 1 /\ dirname(q) = join(r.jpegDir, strftimeYear(r.projectDate))
                /\ basename(q) = r.baseDirectory}}
RawLeafNames(r) ==
  {basename(p) : p \in {q \in r.after :
     Len(q) > 1 /\ dirname(q) = join(r.rawDir, <<"R">> \o strftimeYear(r.projectDate))
                /\ basename(q) = <<"R">> \o r.baseDirectory}}

\* the leaf names of a call are those of the edited folders it used
LeavesParallel(r) ==
  /\ r.jpegDir # EmptyPath => JpegLeafNames(r) # {}
  /\ r.rawDir # EmptyPath => RawLeafNames(r) # {}
  /\ \A name \in JpegLeafNames(r) : name \in EditedFoldersUsed(r)
  /\ \A name \in RawLeafNames(r) :
       \E edited \in EditedFoldersUsed(r) : name = <<"R">> \o edited

\* C24: after a resolution that did not raise, the JPEG leaf folder has the
\* name of the edited folder used for the project, created or recognised as
\* existing, and the RAW leaf folder has that name after an R.
C24_LeavesParallel ==
  \A i \in 1..Len(resolutions) :
    ~resolutions[i].raised => LeavesParallel(resolutions[i])

\* the part of C24 that holds: the same, for a resolution that created the
\* edited folder
C24_CreatedLeavesParallel ==
  \A i \in 1..Len(resolutions) :
    (~resolutions[i].raised /\ CreatedBy(resolutions[i]) # {}) =>
      LeavesParallel(resolutions[i])

\* the call went on to create an edited folder: its year folder is there and
\* editedPathExists was not set
CreationDecided(r) == YearPathOf(r) \in r.after /\ ~r.editedPathExists

\* C25: when _mkdirs goes on to create an edited folder, the name it composed
\* is the name of no entry of the edited year folder, whatever the folder
\* held: the folder of that name is created, os.mkdir does not fail on an
\* existing name and no existing folder is taken; the search for the suffix
\* ends.
C25_NoNameCollision ==
  \A i \in 1..Len(resolutions) :
    CreationDecided(resolutions[i]) =>
      /\ resolutions[i].baseDirectory \notin EntriesBefore(resolutions[i])
      /\ CreatedBy(resolutions[i]) = {resolutions[i].baseDirectory}
      /\ EditedFolderOf(resolutions[i]) \in resolutions[i].after

\* a second project of a date, after a first whose folder has no suffix
C25_Witness ==
  \E i \in 1..Len(resolutions) :
    /\ CreationDecided(resolutions[i])
    /\ EntriesBefore(resolutions[i]) = {<<"2","3","0","1","0","1"," ","b">>}
    /\ resolutions[i].projectName = <<"a">>
    /\ CreatedBy(resolutions[i]) = {<<"2","3","0","1","0","1","-","0","1"," ","a">>}

=============================================================================
